---- MODULE Spec2Model ----
(***************************************************************************)
(* A model of the Simbody physics adapter of Gazebo (SimbodyPhysics):      *)
(* the multibody graph build, the backend system build, the stepper, the   *)
(* pose synchronizer and the physics lock.                                 *)
(*                                                                         *)
(* Links of a model are numbered 1..N in the order of Model::GetLinks(),   *)
(* joints 1..J in the order of Model::GetJoints().  Body 0 is "world".     *)
(* Time is counted in ticks of the world's step size.                      *)
(***************************************************************************)
EXTENDS Integers, Sequences, FiniteSets, TLC

----------------------------------------------------------------------------
(* Bounds of the model.                                                    *)

\* links per enumerated model
MaxLinks == 2
\* joints per enumerated model
MaxJoints == 2
\* models in the world
MaxModels == 2
\* calls made on the loaded world in one behaviour
MaxCalls == 4
\* times one enumerated model is built
MaxBuilds == 2

----------------------------------------------------------------------------
(* Generic model entities.                                                 *)

\* Handles of backend mobilized bodies: the ground is body 0 of the matter
\* subsystem, a default-constructed MobilizedBody is an empty handle.
Ground == 0
EmptyHandle == -1

\* Joint type tags of physics::Base that a SimbodyJoint can carry.
JointEntityTypes ==
  {"HINGE_JOINT", "HINGE2_JOINT", "SLIDER_JOINT", "UNIVERSAL_JOINT",
   "SCREW_JOINT", "BALL_JOINT"}

GetTypeString(type) ==
  IF type = "BALL_JOINT" THEN "ball"
  ELSE IF type = "HINGE2_JOINT" THEN "revolute2"
  ELSE IF type = "HINGE_JOINT" THEN "revolute"
  ELSE IF type = "SLIDER_JOINT" THEN "prismatic"
  ELSE IF type = "SCREW_JOINT" THEN "screw"
  ELSE IF type = "UNIVERSAL_JOINT" THEN "universal"
  ELSE "UNRECOGNIZED"

\* A link as the loader hands it over.
MkLink(base, selfCollide, collisions) ==
  [mustBeBaseLink |-> base, selfCollide |-> selfCollide,
   collisions |-> collisions]

PlainLink == MkLink(FALSE, FALSE, <<>>)

\* A joint as the loader hands it over; parent 0 is "no parent link",
\* child 0 is a child link reference that is empty.
MkJoint(parent, child, type, mustBreak) ==
  [parent |-> parent, child |-> child, type |-> type,
   mustBreakLoopHere |-> mustBreak]

MkModel(static, links, joints) ==
  [static |-> static, links |-> links, joints |-> joints]

NumLinks(model) == Len(model.links)
NumJoints(model) == Len(model.joints)

----------------------------------------------------------------------------
(* The multibody graph maker.  A graph under construction is a record      *)
(*   level  : body number -> level in the tree, -1 when not in the tree    *)
(*   joints : the registered joints followed by the added base joints      *)
(*   mobs   : the mobilizers, in the order they were added                 *)
(*   nslaves: link -> number of slave bodies split off it                  *)

NotInTree == -1

GraphJoint(parent, child, type, mustBeLoop, added, ref) ==
  [parent |-> parent, child |-> child, type |-> type,
   mustBeLoopJoint |-> mustBeLoop, isAddedBaseJoint |-> added,
   hasMobilizer |-> FALSE, ref |-> ref]

Mobilizer(joint, inb, outb, level, reversed, slave, added, type, ref) ==
  [joint |-> joint, inboard |-> inb, outboardMaster |-> outb,
   level |-> level, isReversedFromJoint |-> reversed,
   isSlaveMobilizer |-> slave, isAddedBaseMobilizer |-> added,
   jointTypeName |-> type, jointRef |-> ref]

isInTree(G, b) == G.level[b] # NotInTree

\* The mass of every link, in units that divide evenly among fragments.
LinkMass == 60

\* SimTK::Infinity, the mass handed over for "world".
Infinity == "Infinity"

\* addBody for "world", body 0 and the root of the tree; bodies lists the
\* registered bodies in the order of the addBody calls and mass is the mass
\* each was registered with.
WorldBody ==
  [level |-> (0 :> 0), mustBeBaseBody |-> (0 :> FALSE), joints |-> <<>>,
   mobs |-> <<>>, nslaves |-> (0 :> 0), bodies |-> <<0>>,
   mass |-> (0 :> Infinity)]

\* addBody for link b of the model.
addBody(G, model, b) ==
  [G EXCEPT !.level = @ @@ (b :> NotInTree),
            !.mustBeBaseBody = @ @@ (b :> model.links[b].mustBeBaseLink),
            !.nslaves = @ @@ (b :> 0),
            !.bodies = Append(@, b),
            !.mass = @ @@ (b :> LinkMass)]

\* The links b.. of the model registered in the order of the link list.
RECURSIVE RegisterBodiesFrom(_, _, _)
RegisterBodiesFrom(G, model, b) ==
  IF b > NumLinks(model) THEN G
  ELSE RegisterBodiesFrom(addBody(G, model, b), model, b + 1)

\* The bodies registered for "world" and for every link, no joint yet.
RegisterBodies(model) == RegisterBodiesFrom(WorldBody, model, 1)

\* addJoint that hands over no loop-breaking flag.
addJoint_NoFlag(G, model, j) ==
  [G EXCEPT !.joints =
     Append(@, GraphJoint(model.joints[j].parent, model.joints[j].child,
                          GetTypeString(model.joints[j].type),
                          FALSE, FALSE, j))]

\* addJoint for joint j of the model: its own reference, its type name, the
\* parent link or "world" (body 0) when it has none, the child link and
\* mustBreakLoopHere.
addJoint(G, model, j) ==
  [G EXCEPT !.joints =
     Append(@, GraphJoint(model.joints[j].parent, model.joints[j].child,
                          GetTypeString(model.joints[j].type),
                          model.joints[j].mustBreakLoopHere, FALSE, j))]

\* The joints j, j - 1, .., 1 of the model registered in that order.
RECURSIVE RegisterJointsDownFrom(_, _, _)
RegisterJointsDownFrom(G, model, j) ==
  IF j < 1 THEN G
  ELSE RegisterJointsDownFrom(addJoint(G, model, j), model, j - 1)

\* The joints j.. of the model registered in the order of the joint list.
RECURSIVE RegisterJointsFrom(_, _, _)
RegisterJointsFrom(G, model, j) ==
  IF j > NumJoints(model) THEN G
  ELSE RegisterJointsFrom(addJoint(G, model, j), model, j + 1)

\* The registration with the joints handed over last to first.
RegisterBodiesAndJoints_Reversed(model) ==
  RegisterJointsDownFrom(RegisterBodies(model), model, NumJoints(model))

\* addBody for "world" and for every link, addJoint for every joint.
RegisterBodiesAndJoints(model) ==
  RegisterJointsFrom(RegisterBodies(model), model, 1)

NumBodies(G) == Cardinality(DOMAIN G.level)

\* The joints that name body b as parent or as child.
JointsOf(G, b) ==
  {j \in 1..Len(G.joints) : G.joints[j].parent = b \/ G.joints[j].child = b}

bodiesAreConnected(G, a, b) ==
  \E j \in 1..Len(G.joints) :
     \/ G.joints[j].parent = a /\ G.joints[j].child = b
     \/ G.joints[j].parent = b /\ G.joints[j].child = a

\* A free joint between Ground and the body, appended to the joints.
connectBodyToGround(G, b) ==
  [G EXCEPT !.joints = Append(@, GraphJoint(0, b, "free", FALSE, TRUE, 0))]

RECURSIVE ConnectBaseBodies(_, _)
ConnectBaseBodies(G, b) ==
  IF b >= NumBodies(G) THEN G
  ELSE
    LET need ==
          IF G.mustBeBaseBody[b]
          THEN JointsOf(G, b) = {} \/ ~bodiesAreConnected(G, b, 0)
          ELSE JointsOf(G, b) = {}
    IN ConnectBaseBodies(IF need THEN connectBodyToGround(G, b) ELSE G, b + 1)

\* The joint becomes a tree mobilizer; its body already in the tree is the
\* inboard body.
addMobilizerForJoint(G, j) ==
  LET jt == G.joints[j]
      rev == ~isInTree(G, jt.parent)
      inb == IF rev THEN jt.child ELSE jt.parent
      outb == IF rev THEN jt.parent ELSE jt.child
      lvl == G.level[inb] + 1
  IN [G EXCEPT !.joints[j].hasMobilizer = TRUE,
               !.level[outb] = lvl,
               !.mobs = Append(@, Mobilizer(j, inb, outb, lvl,
                                  rev, FALSE, jt.isAddedBaseJoint,
                                  jt.type, jt.ref))]

\* One pass over the joints for one level of growTree.
RECURSIVE GrowLevel(_, _, _, _)
GrowLevel(G, level, j, any) ==
  IF j > Len(G.joints) THEN <<G, any>>
  ELSE
    LET jt == G.joints[j]
        pin == isInTree(G, jt.parent)
        cin == isInTree(G, jt.child)
        take ==
          /\ ~jt.hasMobilizer
          /\ ~jt.mustBeLoopJoint
          /\ pin # cin
          /\ G.level[IF pin THEN jt.parent ELSE jt.child] = level - 1
    IN IF take THEN GrowLevel(addMobilizerForJoint(G, j), level, j + 1, TRUE)
       ELSE GrowLevel(G, level, j + 1, any)

RECURSIVE growTree(_, _)
growTree(G, level) ==
  LET r == GrowLevel(G, level, 1, FALSE)
  IN IF r[2] THEN growTree(r[1], level + 1) ELSE r[1]

NumChildren(G, b) ==
  Cardinality({j \in 1..Len(G.joints) : G.joints[j].parent = b})

IsParentOnly(G, b) ==
  \A j \in 1..Len(G.joints) : G.joints[j].child # b

\* The body not yet in the tree to connect to Ground next: a body that is
\* never a child is preferred, then the one with the most children, then the
\* first in input order.  0 when every body is in the tree.
chooseNewBaseBody(G) ==
  LET free == {b \in 1..(NumBodies(G) - 1) : ~isInTree(G, b)}
      pool == IF \E b \in free : IsParentOnly(G, b)
              THEN {b \in free : IsParentOnly(G, b)} ELSE free
      best == {b \in pool :
                 \A c \in pool : NumChildren(G, c) <= NumChildren(G, b)}
  IN IF free = {} THEN 0
     ELSE CHOOSE b \in best : \A c \in best : b <= c

RECURSIVE GrowForest(_)
GrowForest(G) ==
  LET grown == growTree(G, 1)
      base == chooseNewBaseBody(grown)
  IN IF base = 0 THEN grown
     ELSE GrowForest(connectBodyToGround(grown, base))

\* Every joint left without a mobilizer closes a loop: its child body is
\* split, and the joint mobilizes the new slave body.
RECURSIVE breakLoops(_, _)
breakLoops(G, j) ==
  IF j > Len(G.joints) THEN G
  ELSE IF G.joints[j].hasMobilizer THEN breakLoops(G, j + 1)
  ELSE
    LET jt == G.joints[j]
        lvl == G.level[jt.parent] + 1
        split ==
          [G EXCEPT !.joints[j].hasMobilizer = TRUE,
                    !.nslaves[jt.child] = @ + 1,
                    !.mobs = Append(@, Mobilizer(j, jt.parent, jt.child, lvl,
                                       FALSE, TRUE, FALSE, jt.type, jt.ref))]
    IN breakLoops(split, j + 1)

generateGraph(G) == breakLoops(GrowForest(ConnectBaseBodies(G, 1)), 1)

CreateMultibodyGraph(model) == generateGraph(RegisterBodiesAndJoints(model))

\* Mobilizer::getNumFragments: the outboard master body and its slaves.
getNumFragments(G, mob) == 1 + G.nslaves[mob.outboardMaster]

----------------------------------------------------------------------------
(* The backend system.  A system state S is a record                       *)
(*   links  : model -> link -> [masterMobod, slaveMobods, slaveWelds]      *)
(*   joints : model -> joint -> [mobod, isReversed]                        *)
(*   matter : the mobilized bodies (handle k is bodies[k]), the weld       *)
(*            constraints, the ground body's contact surfaces and the      *)
(*            number of contact cliques handed out                         *)
(*   ub     : TRUE once an empty MobilizedBody handle or an empty link     *)
(*            pointer was dereferenced                                     *)
(*   sdfGravity : the gravity vector held by the engine's sdf element      *)
(*   gravity    : the default direction and magnitude of Force::Gravity    *)
(*   engineInit : TRUE once SimbodyPhysics::Init has run                   *)

FreshLink == [masterMobod |-> EmptyHandle, slaveMobods |-> <<>>,
              slaveWelds |-> <<>>, dirtyPose |-> <<>>]
FreshJoint == [mobod |-> EmptyHandle, isReversed |-> FALSE]

\* ContactCliqueId(): the invalid clique.
InvalidClique == 0

ContactSurface(geometry, clique, owner) ==
  [geometry |-> geometry, clique |-> clique, owner |-> owner]

\* MobilizedBody::updBody().addContactSurface on the handle.
addContactSurface(S, mobod, surface) ==
  IF mobod = EmptyHandle THEN [S EXCEPT !.ub = TRUE]
  ELSE IF mobod = Ground
  THEN [S EXCEPT !.matter.groundSurfaces = Append(@, surface)]
  ELSE [S EXCEPT !.matter.bodies[mobod].surfaces = Append(@, surface)]

\* One collision of AddCollisionsToLink: the switch on the shape type.
AddCollision(S, shape, owner, mobod, addModelClique, modelClique) ==
  LET clique == IF addModelClique THEN modelClique ELSE InvalidClique
  IN IF shape = "plane"
     THEN addContactSurface(
            addContactSurface(S, Ground,
                              ContactSurface("HalfSpace", InvalidClique, owner)),
            mobod, ContactSurface("HalfSpace", clique, owner))
     ELSE IF shape = "sphere"
     THEN addContactSurface(S, mobod, ContactSurface("Sphere", clique, owner))
     ELSE IF shape = "cylinder"
     THEN addContactSurface(S, mobod, ContactSurface("Ellipsoid", clique, owner))
     ELSE IF shape = "box"
     THEN addContactSurface(S, mobod, ContactSurface("Ellipsoid", clique, owner))
     ELSE S

RECURSIVE AddCollisionsFrom(_, _, _, _, _, _, _)
AddCollisionsFrom(S, model, m, l, c, mobod, modelClique) ==
  IF S.ub \/ c > Len(model.links[l].collisions) THEN S
  ELSE AddCollisionsFrom(
         AddCollision(S, model.links[l].collisions[c], <<m, l, c>>, mobod,
                      modelClique # InvalidClique
                        /\ ~model.links[l].selfCollide,
                      modelClique),
         model, m, l, c + 1, mobod, modelClique)

AddCollisionsToLink(S, model, m, l, mobod, modelClique) ==
  AddCollisionsFrom(S, model, m, l, 1, mobod, modelClique)

RECURSIVE AddStaticLinks(_, _, _, _)
AddStaticLinks(S, model, m, l) ==
  IF S.ub \/ l > NumLinks(model) THEN S
  ELSE LET withSurfaces ==
             AddCollisionsToLink(S, model, m, l, Ground, InvalidClique)
       IN IF withSurfaces.ub THEN withSurfaces
          ELSE AddStaticLinks(
                 [withSurfaces EXCEPT !.links[m][l].masterMobod = Ground],
                 model, m, l + 1)

AddStaticModelToSimbodySystem(S, model, m) == AddStaticLinks(S, model, m, 1)

\* The backend mobilizer class built for a joint type name; "None" when no
\* branch of the builder constructs one.
MobilizedBodyKind(mob) ==
  IF mob.isAddedBaseMobilizer
  THEN (IF mob.jointTypeName = "free" THEN "Free" ELSE "None")
  ELSE IF mob.jointTypeName = "free" THEN "Free"
  ELSE IF mob.jointTypeName = "revolute" THEN "Pin"
  ELSE IF mob.jointTypeName = "prismatic" THEN "Slider"
  ELSE IF mob.jointTypeName = "ball" THEN "Ball"
  ELSE "None"

\* SimbodyLink::GetEffectiveMassProps: the mass of one of _numFragments
\* equal fragments of the link.
GetEffectiveMassProps(_numFragments) == LinkMass \div _numFragments

\* The mass properties of the whole link given to each body.
massProps_Whole(G, mob) == GetEffectiveMassProps(1)

\* massProps = gzOutb->GetEffectiveMassProps(mob.getNumFragments())
massProps(G, mob) == GetEffectiveMassProps(getNumFragments(G, mob))

\* The constructor given the parent-side anchor as inboard frame and the
\* stored default whatever the direction of the mobilizer.
MobilizedBody_AsJoint(kind, parentMobod, mass, mob, frags, owner) ==
  [kind |-> kind, parent |-> parentMobod, mass |-> mass,
   inboardFrame |-> IF mob.isAddedBaseMobilizer THEN "identity" ELSE "X_PA",
   outboardFrame |-> IF mob.isAddedBaseMobilizer THEN "identity" ELSE "X_CB",
   direction |-> IF ~mob.isAddedBaseMobilizer /\ mob.isReversedFromJoint
                 THEN "Reverse" ELSE "Forward",
   default |-> IF mob.isAddedBaseMobilizer THEN "linkPose"
               ELSE IF kind \in {"Free", "Ball"} THEN "defX_AB"
               ELSE "none",
   fragments |-> frags, owner |-> owner, slave |-> mob.isSlaveMobilizer,
   surfaces |-> <<>>]

\* The constructor of a MobilizedBody of the kind, adopted by the matter
\* subsystem of its parent handle.
MobilizedBody(kind, parentMobod, mass, mob, frags, owner) ==
  [kind |-> kind, parent |-> parentMobod, mass |-> mass,
   inboardFrame |-> IF mob.isAddedBaseMobilizer THEN "identity"
                    ELSE IF mob.isReversedFromJoint THEN "X_CB" ELSE "X_PA",
   outboardFrame |-> IF mob.isAddedBaseMobilizer THEN "identity"
                     ELSE IF mob.isReversedFromJoint THEN "X_PA" ELSE "X_CB",
   direction |-> IF ~mob.isAddedBaseMobilizer /\ mob.isReversedFromJoint
                 THEN "Reverse" ELSE "Forward",
   default |-> IF mob.isAddedBaseMobilizer THEN "linkPose"
               ELSE IF kind \in {"Free", "Ball"}
               THEN (IF mob.isReversedFromJoint THEN "inverse defX_AB"
                     ELSE "defX_AB")
               ELSE "none",
   fragments |-> frags, owner |-> owner, slave |-> mob.isSlaveMobilizer,
   surfaces |-> <<>>]

\* One iteration of the mobilizer loop of AddDynamicModelToSimbodySystem.
AddMobilizer(S, model, m, G, mob, modelClique) ==
  LET gzOutb == mob.outboardMaster
      parentMobod == IF mob.inboard = 0 THEN Ground
                     ELSE S.links[m][mob.inboard].masterMobod
      kind == MobilizedBodyKind(mob)
      built == kind # "None"
      S1 == IF ~built THEN S
            ELSE IF parentMobod = EmptyHandle THEN [S EXCEPT !.ub = TRUE]
            ELSE [S EXCEPT !.matter.bodies =
                    Append(@, MobilizedBody(kind, parentMobod,
                                            massProps(G, mob), mob,
                                            getNumFragments(G, mob),
                                            <<m, gzOutb>>))]
      mobod == IF built THEN Len(S1.matter.bodies) ELSE EmptyHandle
      S2 == IF mob.isAddedBaseMobilizer THEN S1
            ELSE [S1 EXCEPT !.joints[m][mob.jointRef] =
                    [mobod |-> mobod, isReversed |-> mob.isReversedFromJoint]]
      S3 == IF mob.isSlaveMobilizer
            THEN [S2 EXCEPT !.links[m][gzOutb].slaveMobods = Append(@, mobod)]
            ELSE [S2 EXCEPT !.links[m][gzOutb].masterMobod = mobod]
  IN IF S1.ub THEN S1
     ELSE AddCollisionsToLink(S3, model, m, gzOutb, mobod, modelClique)

RECURSIVE AddMobilizers(_, _, _, _, _, _)
AddMobilizers(S, model, m, G, k, modelClique) ==
  IF S.ub \/ k > Len(G.mobs) THEN S
  ELSE AddMobilizers(AddMobilizer(S, model, m, G, G.mobs[k], modelClique),
                     model, m, G, k + 1, modelClique)

\* Constraint::Weld(master, slave) for the slaves i.. of one link.
RECURSIVE WeldLink(_, _, _, _)
WeldLink(S, m, l, i) ==
  IF S.ub \/ i > Len(S.links[m][l].slaveMobods) THEN S
  ELSE LET master == S.links[m][l].masterMobod
           slave == S.links[m][l].slaveMobods[i]
           weld == <<master, slave>>
       IN IF master = EmptyHandle \/ slave = EmptyHandle
          THEN [S EXCEPT !.ub = TRUE]
          ELSE WeldLink([S EXCEPT !.matter.welds = Append(@, weld),
                                  !.links[m][l].slaveWelds = Append(@, weld)],
                        m, l, i + 1)

\* The weld loop: every link of every model of the world.
RECURSIVE WeldSlaves(_, _, _)
WeldSlaves(S, m, l) ==
  IF S.ub \/ m > Len(S.links) THEN S
  ELSE IF l > Len(S.links[m]) THEN WeldSlaves(S, m + 1, 1)
  ELSE WeldSlaves(WeldLink(S, m, l, 1), m, l + 1)

\* The build with one clique for all models in place of a new one.
AddDynamicModelToSimbodySystem_OneClique(S, model, m, G) ==
  LET modelClique == 1
      S0 == [S EXCEPT !.matter.ncliques = modelClique]
  IN WeldSlaves(AddMobilizers(S0, model, m, G, 1, modelClique), 1, 1)

AddDynamicModelToSimbodySystem(S, model, m, G) ==
  LET modelClique == S.matter.ncliques + 1
      S0 == [S EXCEPT !.matter.ncliques = modelClique]
  IN WeldSlaves(AddMobilizers(S0, model, m, G, 1, modelClique), 1, 1)

\* (*ji)->GetChild()->GetName() in the joint loop of CreateMultibodyGraph
\* dereferences an empty link pointer.
HasNullChild(model) ==
  \E j \in 1..NumJoints(model) : model.joints[j].child = 0

\* The graph of the model is built and kept.
GraphIsBuilt(model) == ~model.static /\ ~HasNullChild(model)

\* The try block of InitModel.
BuildModel(S, model, m) ==
  IF model.static THEN AddStaticModelToSimbodySystem(S, model, m)
  ELSE IF HasNullChild(model) THEN [S EXCEPT !.ub = TRUE]
  ELSE AddDynamicModelToSimbodySystem(S, model, m,
                                      CreateMultibodyGraph(model))

----------------------------------------------------------------------------
(* The stepper and the pose synchronizer.                                  *)

\* A stepTo that can pass the report time by one tick.
StepToResults_Overshoot(time, t) == (time + 1)..(t + 1)

\* Integrator::stepTo(t, t): the times the integrator can report when the
\* call returns; it never passes the report time t.
StepToResults(time, t) == (time + 1)..t

\* The loop with an "if" in place of the "while": one stepTo at most.
StepLoop_IfOnly(time, t) ==
  IF time < t THEN StepToResults(time, t) ELSE {time}

\* while (integ->getTime() < t) integ->stepTo(t, t): the times the
\* integrator can report when the loop ends.
RECURSIVE StepLoop(_, _)
StepLoop(time, t) ==
  IF time < t
  THEN UNION {StepLoop(x, t) : x \in StepToResults(time, t)}
  ELSE {time}

\* The links of every model of the world, in the order of the two loops.
RECURSIVE LinksFrom(_, _, _)
LinksFrom(ms, m, l) ==
  IF m > Len(ms) THEN <<>>
  ELSE IF l > NumLinks(ms[m]) THEN LinksFrom(ms, m + 1, 1)
  ELSE <<(<<m, l>>)>> \o LinksFrom(ms, m, l + 1)

AllLinks(ms) == LinksFrom(ms, 1, 1)

\* Transform2Pose(masterMobod.getBodyTransform(s)): the pose of the body in
\* the integrator's state.
BodyPose(mobod, time) == <<mobod, time>>

\* The pose loop of UpdatePhysics over the links e[i..]: each link's master
\* body is read, the link's dirty pose is set and the link is pushed on the
\* list.
RECURSIVE PublishFrom(_, _, _, _, _)
PublishFrom(S, e, i, dirty, time) ==
  IF i > Len(e) THEN [sys |-> S, dirty |-> dirty]
  ELSE LET mobod == S.links[e[i][1]][e[i][2]].masterMobod
       IN IF mobod = EmptyHandle
          THEN [sys |-> [S EXCEPT !.ub = TRUE], dirty |-> dirty]
          ELSE PublishFrom(
                 [S EXCEPT !.links[e[i][1]][e[i][2]].dirtyPose =
                             BodyPose(mobod, time)],
                 e, i + 1, Append(dirty, e[i]), time)

\* The pose loop run over the first model only.
PublishPoses_FirstModel(S, ms, dirty, time) ==
  PublishFrom(S, AllLinks(SubSeq(ms, 1, 1)), 1, dirty, time)

PublishPoses(S, ms, dirty, time) ==
  PublishFrom(S, AllLinks(ms), 1, dirty, time)

\* The force element left as it was.
clearAllForces_Kept(forces) == forces

\* discreteForces.clearAllForces
clearAllForces(forces) == {}

----------------------------------------------------------------------------
(* The state of the program.                                               *)

VARIABLES
  models,          \* the models of the world, in World::GetModels() order
  sys,             \* the backend system and the links' and joints' handles
  integ,           \* the integrator: initialized, time
  simTime,         \* World::GetSimTime()
  dirtyPoses,      \* World::dirtyPoses
  discreteForces,  \* the links with a one-shot force applied
  mutex,           \* owner of physicsUpdateMutex, "none" when free
  pc,              \* where each thread is
  last,            \* the last completed call: op, model, outcome, pre
  nCalls,          \* calls made on the loaded world so far
  crashed,         \* the process has died
  mbgraphs         \* model -> mobilizers of the last graph built for it

vars == <<models, sys, integ, simTime, dirtyPoses, discreteForces, mutex, pc,
          last, nCalls, crashed, mbgraphs>>

Threads == {"physics", "context"}

EmptySystem ==
  [links |-> <<>>, joints |-> <<>>,
   matter |-> [bodies |-> <<>>, welds |-> <<>>, groundSurfaces |-> <<>>,
               ncliques |-> 0],
   ub |-> FALSE,
   sdfGravity |-> <<0, 0, -98>>,
   gravity |-> [direction |-> <<0, 0, -1000>>, magnitude |-> 0],
   engineInit |-> FALSE]

\* The sequence of n copies of x.
RECURSIVE Replicate(_, _)
Replicate(x, n) == IF n = 0 THEN <<>> ELSE Append(Replicate(x, n - 1), x)

\* The links and joints of a model as CreateLink and CreateJoint make them.
WithModel(S, model) ==
  [S EXCEPT !.links = Append(@, Replicate(FreshLink, NumLinks(model))),
            !.joints = Append(@, Replicate(FreshJoint, NumJoints(model)))]

\* The slave bodies recorded on the links of model m.
RECURSIVE SlavesFrom(_, _, _)
SlavesFrom(S, m, l) ==
  IF l > Len(S.links[m]) THEN <<>>
  ELSE S.links[m][l].slaveMobods \o SlavesFrom(S, m, l + 1)

SlavesOf(S, m) == SlavesFrom(S, m, 1)

NoPre == [time |-> 0, forces |-> {}, dirty |-> <<>>, bodies |-> 0,
          welds |-> 0, slaves |-> 0]

\* What a call started from, as far as its claims need it.
PreOf(op, m) ==
  IF op = "UpdatePhysics"
  THEN [NoPre EXCEPT !.time = integ.time, !.forces = discreteForces,
                     !.dirty = dirtyPoses]
  ELSE IF op = "InitModel"
  THEN [NoPre EXCEPT !.time = integ.time,
                     !.bodies = Len(sys.matter.bodies),
                     !.welds = Len(sys.matter.welds),
                     !.slaves = Len(SlavesOf(sys, m))]
  ELSE NoPre

Call(op, m, outcome) ==
  [op |-> op, model |-> m, outcome |-> outcome, pre |-> PreOf(op, m)]

NoCall == [op |-> "none", model |-> 0, outcome |-> "ok", pre |-> NoPre]

\* What a dereference of an empty handle can end in: a thrown
\* SimTK exception or the death of the process.
UBOutcomes == {"exception", "crash"}

\* Where a thread is: at is the place, op and model the call it is making.
At(at, op, m) == [at |-> at, op |-> op, model |-> m]

AtIdle == At("idle", "none", 0)

InitWith(ms, S) ==
  /\ models = ms
  /\ sys = S
  /\ integ = [initialized |-> FALSE, time |-> 0]
  /\ simTime = 0
  /\ dirtyPoses = <<>>
  /\ discreteForces = {}
  /\ mutex = "none"
  /\ pc = [physics |-> AtIdle, context |-> AtIdle]
  /\ last = NoCall
  /\ nCalls = 0
  /\ crashed = FALSE
  /\ mbgraphs = Replicate(<<>>, Len(ms))

Idle == ~crashed /\ \A t \in Threads : pc[t].at = "idle"

\* Vectors are integer triples in units of 0.1; a direction is a triple in
\* units of 0.001.
RECURSIVE SqrtFrom(_, _)
SqrtFrom(n, r) == IF (r + 1) * (r + 1) > n THEN r ELSE SqrtFrom(n, r + 1)

\* SimTK::Vec3::norm
norm(g) == SqrtFrom(g[1] * g[1] + g[2] * g[2] + g[3] * g[3], 0)

\* SimTK::Force::Gravity::setDefaultGravityVector
setDefaultGravityVector(gravity, g) ==
  [direction |-> <<(g[1] * 1000) \div norm(g), (g[2] * 1000) \div norm(g),
                   (g[3] * 1000) \div norm(g)>>,
   magnitude |-> norm(g)]

\* SimTK::Force::Gravity::setDefaultMagnitude
setDefaultMagnitude(gravity, mag) == [gravity EXCEPT !.magnitude = mag]

\* SimbodyPhysics::InitSimbodySystem: gravity is read from the sdf element.
InitSimbodySystem(S) ==
  LET g == S.sdfGravity
  IN [S EXCEPT !.gravity = IF norm(g) # 0
                           THEN setDefaultGravityVector(@, g)
                           ELSE setDefaultMagnitude(@, 0)]

----------------------------------------------------------------------------
(* The operations, each as one step.                                       *)

\* SimbodyPhysics::InitModel
InitModelEffect(m) ==
  LET model == models[m]
      built == BuildModel(sys, model, m)
  IN /\ mbgraphs' = IF ~GraphIsBuilt(model) THEN mbgraphs
                    ELSE [mbgraphs EXCEPT ![m] = CreateMultibodyGraph(model).mobs]
     /\ IF built.ub
        THEN /\ \E out \in UBOutcomes :
                  /\ last' = Call("InitModel", m, out)
                  /\ crashed' = (out = "crash")
             /\ sys' = [built EXCEPT !.ub = FALSE]
             /\ integ' = integ
        ELSE /\ last' = Call("InitModel", m, "ok")
             /\ crashed' = crashed
             /\ sys' = built
             /\ integ' = [initialized |-> TRUE, time |-> 0]

InitModel(m) ==
  /\ Idle
  /\ nCalls < MaxCalls
  /\ m \in 1..Len(models)
  /\ nCalls' = nCalls + 1
  /\ InitModelEffect(m)
  /\ UNCHANGED <<models, simTime, dirtyPoses, discreteForces, mutex, pc>>

\* SimbodyPhysics::UpdatePhysics, the mutex being free.
UpdatePhysics ==
  /\ Idle
  /\ mutex = "none"
  /\ nCalls < MaxCalls
  /\ nCalls' = nCalls + 1
  /\ IF ~integ.initialized
     THEN /\ \E out \in UBOutcomes :
               /\ last' = Call("UpdatePhysics", 0, out)
               /\ crashed' = (out = "crash")
          /\ UNCHANGED <<integ, dirtyPoses, discreteForces, sys>>
     ELSE \/ \* the integrator throws in the stepping loop
             /\ integ.time < simTime
             /\ \E t \in integ.time..(simTime - 1) :
                  integ' = [integ EXCEPT !.time = t]
             /\ last' = Call("UpdatePhysics", 0, "exception")
             /\ UNCHANGED <<dirtyPoses, discreteForces, crashed, sys>>
          \/ \E t \in StepLoop(integ.time, simTime) :
               LET pub == PublishPoses(sys, models, dirtyPoses, t)
               IN /\ integ' = [integ EXCEPT !.time = t]
                  /\ dirtyPoses' = pub.dirty
                  /\ sys' = [pub.sys EXCEPT !.ub = FALSE]
                  /\ IF pub.sys.ub
                     THEN /\ \E out \in UBOutcomes :
                               /\ last' = Call("UpdatePhysics", 0, out)
                               /\ crashed' = (out = "crash")
                          /\ UNCHANGED discreteForces
                     ELSE /\ last' = Call("UpdatePhysics", 0, "ok")
                          /\ discreteForces' = clearAllForces(discreteForces)
                          /\ UNCHANGED crashed
  /\ UNCHANGED <<models, simTime, mutex, pc, mbgraphs>>

\* The world is loaded with a model: its links and joints are created.
\* Models enter the world at load time, before the engine is used.
InsertModel(model) ==
  /\ Idle
  /\ mutex = "none"
  /\ last.op \in {"none", "InsertModel"}
  /\ Len(models) < MaxModels
  /\ models' = Append(models, model)
  /\ sys' = WithModel(sys, model)
  /\ mbgraphs' = Append(mbgraphs, <<>>)
  /\ last' = Call("InsertModel", Len(models) + 1, "ok")
  /\ UNCHANGED <<integ, simTime, dirtyPoses, discreteForces, mutex, pc,
                 nCalls, crashed>>

\* The world advances the simulation time by one step.
AdvanceSimTime ==
  /\ Idle
  /\ nCalls < MaxCalls
  /\ nCalls' = nCalls + 1
  /\ simTime' = simTime + 1
  /\ last' = Call("AdvanceSimTime", 0, "ok")
  /\ UNCHANGED <<models, sys, integ, dirtyPoses, discreteForces, mutex, pc,
                 crashed, mbgraphs>>

\* A one-shot force is applied to a link that has a backend body.
AddForce(m, l) ==
  /\ Idle
  /\ m \in 1..Len(models)
  /\ l \in 1..NumLinks(models[m])
  /\ sys.links[m][l].masterMobod # EmptyHandle
  /\ nCalls < MaxCalls
  /\ nCalls' = nCalls + 1
  /\ <<m, l>> \notin discreteForces
  /\ discreteForces' = discreteForces \cup {<<m, l>>}
  /\ last' = Call("AddForce", m, "ok")
  /\ UNCHANGED <<models, sys, integ, simTime, dirtyPoses, mutex, pc,
                 crashed, mbgraphs>>

----------------------------------------------------------------------------
(* The models the world is loaded with.                                    *)

Hinge(p, c) == MkJoint(p, c, "HINGE_JOINT", FALSE)

SphereLink == MkLink(FALSE, FALSE, <<"sphere">>)

\* two links joined by one revolute joint
TwoLinkModel == MkModel(FALSE, <<SphereLink, SphereLink>>, <<Hinge(1, 2)>>)

\* four links whose four joints form one cycle
FourBarModel ==
  MkModel(FALSE, <<PlainLink, PlainLink, PlainLink, PlainLink>>,
          <<Hinge(1, 2), Hinge(2, 3), Hinge(3, 4), Hinge(4, 1)>>)

\* a static ground plane
GroundPlaneModel == MkModel(TRUE, <<MkLink(FALSE, FALSE, <<"plane">>)>>, <<>>)

\* two links joined by two joints, which close a loop
TwoJointLoopModel ==
  MkModel(FALSE, <<PlainLink, PlainLink>>, <<Hinge(1, 2), Hinge(1, 2)>>)

Catalog == {TwoLinkModel, TwoJointLoopModel, GroundPlaneModel}

Init == InitWith(<<>>, EmptySystem)

Next ==
  \/ \E model \in Catalog : InsertModel(model)
  \/ \E m \in 1..Len(models) : InitModel(m)
  \/ AdvanceSimTime
  \/ \E m \in 1..Len(models) : \E l \in 1..NumLinks(models[m]) : AddForce(m, l)
  \/ UpdatePhysics

Spec == Init /\ [][Next]_vars

----------------------------------------------------------------------------
(* The builders on every small model: a world of one model, which is       *)
(* initialised and initialised again.                                      *)

JointPairs(n) == {e \in (0..n) \X (1..n) : e[1] # e[2]}

\* the revolute joints ps[j], ps[j + 1], ..
RECURSIVE HingesFrom(_, _)
HingesFrom(ps, j) ==
  IF j > Len(ps) THEN <<>>
  ELSE <<Hinge(ps[j][1], ps[j][2])>> \o HingesFrom(ps, j + 1)

\* n plain links and the revolute joints ps, in that order
PlainModel(n, ps) ==
  MkModel(FALSE, Replicate(PlainLink, n), HingesFrom(ps, 1))

\* the model, and the model with one joint of another type, with one joint
\* flagged mustBreakLoopHere, or with one link flagged mustBeBaseLink
Variants(model) ==
  {model}
  \cup {[model EXCEPT !.joints[j].type = t] :
          j \in 1..NumJoints(model), t \in JointEntityTypes}
  \cup {[model EXCEPT !.joints[j].mustBreakLoopHere = TRUE] :
          j \in 1..NumJoints(model)}
  \cup {[model EXCEPT !.links[l].mustBeBaseLink = TRUE] :
          l \in 1..NumLinks(model)}

\* the two-link model with its joint of each type
TypedModels ==
  {[TwoLinkModel EXCEPT !.joints[1].type = t] : t \in JointEntityTypes}

\* a static model of two links with a collision of four shape types
StaticSceneModel ==
  MkModel(TRUE, <<MkLink(FALSE, FALSE, <<"plane", "box">>),
                  MkLink(FALSE, FALSE, <<"sphere", "mesh">>)>>, <<>>)

\* two links and a joint whose child link reference is empty
DanglingJointModel ==
  MkModel(FALSE, <<PlainLink, PlainLink>>, <<Hinge(0, 1), Hinge(1, 0)>>)

\* a chain of two links that carry collisions of six shape types
AllShapesModel ==
  MkModel(FALSE, <<MkLink(FALSE, FALSE, <<"plane", "sphere", "cylinder">>),
                   MkLink(FALSE, FALSE, <<"box", "mesh", "heightmap">>)>>,
          <<Hinge(0, 1), Hinge(1, 2)>>)

NamedModels ==
  TypedModels
    \cup {TwoLinkModel, FourBarModel, TwoJointLoopModel, GroundPlaneModel,
          StaticSceneModel, DanglingJointModel, AllShapesModel}

InitOneModel(model) == InitWith(<<model>>, WithModel(EmptySystem, model))

InitGraph ==
  \/ \E n \in 1..MaxLinks, k \in 0..MaxJoints :
       \E ps \in [1..k -> JointPairs(n)] :
         \E model \in Variants(PlainModel(n, ps)) : InitOneModel(model)
  \/ \E model \in NamedModels : InitOneModel(model)

Build == nCalls < MaxBuilds /\ InitModel(1)

NextGraph == Build

SpecGraph == InitGraph /\ [][NextGraph]_vars

----------------------------------------------------------------------------
(* The engine under two threads: the physics thread runs UpdatePhysics     *)
(* step by step, the context thread initialises models and changes the     *)
(* world.                                                                  *)

\* The record of a call that has returned.
Done(op, m, outcome) ==
  [op |-> op, model |-> m, outcome |-> outcome, pre |-> NoPre]

\* The lock kept when the call is left.
Unlock_Kept(t) == mutex

\* The scoped lock going out of scope.
Unlock(t) == IF mutex = t THEN "none" ELSE mutex

InStep == pc["physics"].at \in {"stepTo", "publish", "clear"}

InInitModel == pc["context"].at \in {"build", "realize"}

MutatingWorld == pc["context"].at = "mutating"

\* UpdatePhysics leaves on the outcome out.
UpdatePhysics_Leave(out) ==
  /\ last' = Done("UpdatePhysics", 0, out)
  /\ crashed' = (out = "crash")
  /\ mutex' = Unlock("physics")
  /\ pc' = [pc EXCEPT !["physics"] = AtIdle]

\* UpdatePhysics entered without taking the lock.
UpdatePhysics_NoLock ==
  /\ ~crashed
  /\ pc["physics"].at = "idle"
  /\ nCalls < MaxCalls
  /\ nCalls' = nCalls + 1
  /\ pc' = [pc EXCEPT !["physics"] = At("stepTo", "UpdatePhysics", 0)]
  /\ UNCHANGED <<models, sys, integ, simTime, dirtyPoses, discreteForces,
                 mutex, last, crashed, mbgraphs>>

\* scoped_lock lock(*this->physicsUpdateMutex)
UpdatePhysics_Lock ==
  /\ ~crashed
  /\ pc["physics"].at = "idle"
  /\ nCalls < MaxCalls
  /\ mutex \in {"none", "physics"}
  /\ nCalls' = nCalls + 1
  /\ mutex' = "physics"
  /\ pc' = [pc EXCEPT !["physics"] = At("stepTo", "UpdatePhysics", 0)]
  /\ UNCHANGED <<models, sys, integ, simTime, dirtyPoses, discreteForces,
                 last, crashed, mbgraphs>>

\* One test of the while loop and, when it holds, one stepTo.  A system
\* that InitModel is rebuilding at the same time is a data race.
UpdatePhysics_StepTo ==
  /\ ~crashed
  /\ pc["physics"].at = "stepTo"
  /\ \/ /\ ~integ.initialized \/ InInitModel
        /\ \E out \in UBOutcomes : UpdatePhysics_Leave(out)
        /\ UNCHANGED integ
     \/ /\ integ.initialized
        /\ integ.time < simTime
        /\ \/ /\ \E t \in StepToResults(integ.time, simTime) :
                   integ' = [integ EXCEPT !.time = t]
              /\ UNCHANGED <<pc, mutex, last, crashed>>
           \/ /\ UpdatePhysics_Leave("exception")
              /\ UNCHANGED integ
     \/ /\ integ.initialized
        /\ integ.time >= simTime
        /\ pc' = [pc EXCEPT !["physics"].at = "publish"]
        /\ UNCHANGED <<integ, mutex, last, crashed>>
  /\ UNCHANGED <<models, sys, simTime, dirtyPoses, discreteForces, nCalls,
                 mbgraphs>>

\* The pose loop.
UpdatePhysics_Publish ==
  /\ ~crashed
  /\ pc["physics"].at = "publish"
  /\ LET pub == PublishPoses(sys, models, dirtyPoses, integ.time)
     IN /\ dirtyPoses' = pub.dirty
        /\ sys' = [pub.sys EXCEPT !.ub = FALSE]
        /\ \/ /\ pub.sys.ub \/ InInitModel
              /\ \E out \in UBOutcomes : UpdatePhysics_Leave(out)
           \/ /\ ~pub.sys.ub
              /\ pc' = [pc EXCEPT !["physics"].at = "clear"]
              /\ UNCHANGED <<mutex, last, crashed>>
  /\ UNCHANGED <<models, integ, simTime, discreteForces, nCalls, mbgraphs>>

\* clearAllForces and the return.
UpdatePhysics_Clear ==
  /\ ~crashed
  /\ pc["physics"].at = "clear"
  /\ discreteForces' = clearAllForces(discreteForces)
  /\ UpdatePhysics_Leave("ok")
  /\ UNCHANGED <<models, sys, integ, simTime, dirtyPoses, nCalls, mbgraphs>>

\* InitModel is entered; it takes no lock.
InitModel_Begin(m) ==
  /\ ~crashed
  /\ pc["context"].at = "idle"
  /\ nCalls < MaxCalls
  /\ m \in 1..Len(models)
  /\ nCalls' = nCalls + 1
  /\ pc' = [pc EXCEPT !["context"] = At("build", "InitModel", m)]
  /\ UNCHANGED <<models, sys, integ, simTime, dirtyPoses, discreteForces,
                 mutex, last, crashed, mbgraphs>>

\* The try block of InitModel.  Building the system that a step is reading
\* is a data race.
InitModel_Build ==
  /\ ~crashed
  /\ pc["context"].at = "build"
  /\ LET m == pc["context"].model
         built == BuildModel(sys, models[m], m)
     IN /\ mbgraphs' = IF ~GraphIsBuilt(models[m]) THEN mbgraphs
                       ELSE [mbgraphs EXCEPT
                               ![m] = CreateMultibodyGraph(models[m]).mobs]
        /\ sys' = [built EXCEPT !.ub = FALSE]
        /\ \/ /\ built.ub \/ InStep
              /\ \E out \in UBOutcomes :
                   /\ last' = Done("InitModel", m, out)
                   /\ crashed' = (out = "crash")
              /\ pc' = [pc EXCEPT !["context"] = AtIdle]
           \/ /\ ~built.ub
              /\ pc' = [pc EXCEPT !["context"].at = "realize"]
              /\ UNCHANGED <<last, crashed>>
  /\ UNCHANGED <<models, integ, simTime, dirtyPoses, discreteForces, mutex,
                 nCalls>>

\* realizeTopology and integ->initialize.
InitModel_Realize ==
  /\ ~crashed
  /\ pc["context"].at = "realize"
  /\ integ' = [initialized |-> TRUE, time |-> 0]
  /\ last' = Done("InitModel", pc["context"].model, "ok")
  /\ pc' = [pc EXCEPT !["context"] = AtIdle]
  /\ UNCHANGED <<models, sys, simTime, dirtyPoses, discreteForces, mutex,
                 nCalls, crashed, mbgraphs>>

\* The operations of the world that change its topology.
WorldOps == {"InsertModel", "RemoveModel", "ResetWorld"}

\* The world is asked to change.
World_Request(op) ==
  /\ ~crashed
  /\ pc["context"].at = "idle"
  /\ nCalls < MaxCalls
  /\ op = "InsertModel" => Len(models) < MaxModels
  /\ op = "RemoveModel" => Len(models) > 0
  /\ nCalls' = nCalls + 1
  /\ pc' = [pc EXCEPT !["context"] = At("waiting", op, 0)]
  /\ UNCHANGED <<models, sys, integ, simTime, dirtyPoses, discreteForces,
                 mutex, last, crashed, mbgraphs>>

\* The change takes the physics lock.
World_Lock ==
  /\ ~crashed
  /\ pc["context"].at = "waiting"
  /\ mutex \in {"none", "context"}
  /\ mutex' = "context"
  /\ pc' = [pc EXCEPT !["context"].at = "mutating"]
  /\ UNCHANGED <<models, sys, integ, simTime, dirtyPoses, discreteForces,
                 last, nCalls, crashed, mbgraphs>>

AllButLast(seq) == SubSeq(seq, 1, Len(seq) - 1)

\* The change is made and the lock released.
World_Mutate ==
  /\ ~crashed
  /\ pc["context"].at = "mutating"
  /\ \/ /\ pc["context"].op = "InsertModel"
        /\ models' = Append(models, TwoLinkModel)
        /\ sys' = WithModel(sys, TwoLinkModel)
        /\ mbgraphs' = Append(mbgraphs, <<>>)
        /\ UNCHANGED <<simTime, dirtyPoses, discreteForces>>
     \/ /\ pc["context"].op = "RemoveModel"
        /\ models' = AllButLast(models)
        /\ sys' = [sys EXCEPT !.links = AllButLast(@),
                              !.joints = AllButLast(@)]
        /\ mbgraphs' = AllButLast(mbgraphs)
        /\ dirtyPoses' = SelectSeq(dirtyPoses,
                                   LAMBDA e : e[1] # Len(models))
        /\ discreteForces' = {f \in discreteForces : f[1] # Len(models)}
        /\ UNCHANGED simTime
     \/ /\ pc["context"].op = "ResetWorld"
        /\ simTime' = 0
        /\ UNCHANGED <<models, sys, mbgraphs, dirtyPoses, discreteForces>>
  /\ last' = Done(pc["context"].op, 0, "ok")
  /\ mutex' = Unlock("context")
  /\ pc' = [pc EXCEPT !["context"] = AtIdle]
  /\ UNCHANGED <<integ, nCalls, crashed>>

InitConc == InitWith(<<TwoLinkModel>>, WithModel(EmptySystem, TwoLinkModel))

NextConc ==
  \/ UpdatePhysics_Lock
  \/ UpdatePhysics_StepTo
  \/ UpdatePhysics_Publish
  \/ UpdatePhysics_Clear
  \/ \E m \in 1..Len(models) : InitModel_Begin(m)
  \/ InitModel_Build
  \/ InitModel_Realize
  \/ \E op \in WorldOps : World_Request(op)
  \/ World_Lock
  \/ World_Mutate
  \/ AdvanceSimTime
  \/ \E m \in 1..Len(models) : \E l \in 1..NumLinks(models[m]) : AddForce(m, l)

SpecConc == InitConc /\ [][NextConc]_vars

\* The physics thread is a thread of its own that runs on when it can: a
\* step that was started takes its next step.  Starting a step is left to
\* the world, which withholds it while the simulation is paused.
SpecConcLive ==
  /\ SpecConc
  /\ WF_vars(UpdatePhysics_StepTo)
  /\ WF_vars(UpdatePhysics_Publish)
  /\ WF_vars(UpdatePhysics_Clear)

\* ------------------------------------------------------------------------
\* The gravity setting over the engine's life: the world is loaded with one
\* model, calls Init once and InitModel after it; SetGravity comes at any
\* point.
\* ------------------------------------------------------------------------

GravityVectors == {<<0, 0, 0>>, <<0, 0, -98>>, <<0, 0, -10>>, <<30, 0, -40>>}

\* SimbodyPhysics::Init
SimbodyPhysics_Init ==
  /\ Idle
  /\ ~sys.engineInit
  /\ sys' = [InitSimbodySystem(sys) EXCEPT !.engineInit = TRUE]
  /\ last' = Call("Init", 0, "ok")
  /\ UNCHANGED <<models, integ, simTime, dirtyPoses, discreteForces, mutex,
                 pc, nCalls, crashed, mbgraphs>>

\* SimbodyPhysics::SetGravity
SetGravity(_gravity) ==
  /\ Idle
  /\ sys' = [sys EXCEPT !.sdfGravity = _gravity]
  /\ last' = Call("SetGravity", 0, "ok")
  /\ UNCHANGED <<models, integ, simTime, dirtyPoses, discreteForces, mutex,
                 pc, nCalls, crashed, mbgraphs>>

\* The world initialises its models after the engine.
World_InitModel(m) == sys.engineInit /\ InitModel(m)

InitGravity == InitWith(<<TwoLinkModel>>, WithModel(EmptySystem, TwoLinkModel))

NextGravity ==
  \/ SimbodyPhysics_Init
  \/ \E g \in GravityVectors : SetGravity(g)
  \/ \E m \in 1..Len(models) : World_InitModel(m)
  \/ AdvanceSimTime
  \/ UpdatePhysics

SpecGravity == InitGravity /\ [][NextGravity]_vars

\* ------------------------------------------------------------------------
\* The loading of a model: the loader asks the engine for the links, the
\* collisions of each link and then the joints, one call at a time.
\* ------------------------------------------------------------------------

\* What a dereference of a null shared_ptr can end in: the abort of
\* BOOST_ASSERT or a fault of the process.
NullOutcomes == {"abort", "crash"}

CreateJoint_NoThrow(_type) ==
  IF _type = "revolute" THEN [joint |-> "HINGE_JOINT", thrown |-> FALSE]
  ELSE IF _type = "universal"
  THEN [joint |-> "UNIVERSAL_JOINT", thrown |-> FALSE]
  ELSE IF _type = "ball" THEN [joint |-> "BALL_JOINT", thrown |-> FALSE]
  ELSE IF _type = "prismatic"
  THEN [joint |-> "SLIDER_JOINT", thrown |-> FALSE]
  ELSE IF _type = "revolute2"
  THEN [joint |-> "HINGE2_JOINT", thrown |-> FALSE]
  ELSE IF _type = "screw" THEN [joint |-> "SCREW_JOINT", thrown |-> FALSE]
  ELSE [joint |-> "NULL", thrown |-> FALSE]

\* SimbodyPhysics::CreateJoint: the class of the joint made, or a throw.
CreateJoint(_type) ==
  IF _type = "revolute" THEN [joint |-> "HINGE_JOINT", thrown |-> FALSE]
  ELSE IF _type = "universal"
  THEN [joint |-> "UNIVERSAL_JOINT", thrown |-> FALSE]
  ELSE IF _type = "ball" THEN [joint |-> "BALL_JOINT", thrown |-> FALSE]
  ELSE IF _type = "prismatic"
  THEN [joint |-> "SLIDER_JOINT", thrown |-> FALSE]
  ELSE IF _type = "revolute2"
  THEN [joint |-> "HINGE2_JOINT", thrown |-> FALSE]
  ELSE IF _type = "screw" THEN [joint |-> "SCREW_JOINT", thrown |-> FALSE]
  ELSE [joint |-> "NULL", thrown |-> TRUE]

\* SimbodyPhysics::CreateShape: the class of the shape made, "NULL" for the
\* empty pointer that is returned when the type is not known.
CreateShape(_type) ==
  IF _type = "plane" THEN "SimbodyPlaneShape"
  ELSE IF _type = "sphere" THEN "SimbodySphereShape"
  ELSE IF _type = "box" THEN "SimbodyBoxShape"
  ELSE IF _type = "cylinder" THEN "SimbodyCylinderShape"
  ELSE IF _type = "mesh" \/ _type = "trimesh" THEN "SimbodyTrimeshShape"
  ELSE IF _type = "heightmap" THEN "SimbodyHeightmapShape"
  ELSE IF _type = "multiray" THEN "SimbodyMultiRayShape"
  ELSE IF _type = "ray" THEN "SimbodyRayShape"
  ELSE "NULL"

\* SimbodyPhysics::CreateCollision: the shape is created, set on the
\* collision and dereferenced, whatever CreateShape returned.
CreateCollision(_type) ==
  LET shape == CreateShape(_type)
  IN [shape |-> shape, outcomes |-> IF shape = "NULL" THEN NullOutcomes
                                    ELSE {"ok"}]

JointTypeNames ==
  {"revolute", "universal", "ball", "prismatic", "revolute2", "screw",
   "fixed"}

ShapeTypeNames ==
  {"plane", "sphere", "box", "cylinder", "mesh", "heightmap", "ray", "map"}

\* SimbodyPhysics::CreateLink, and the loader adding the link to the model.
Load_CreateLink ==
  /\ Idle
  /\ nCalls < MaxCalls
  /\ NumLinks(models[1]) < MaxLinks
  /\ NumJoints(models[1]) = 0
  /\ nCalls' = nCalls + 1
  /\ models' = [models EXCEPT ![1].links = Append(@, PlainLink)]
  /\ sys' = [sys EXCEPT !.links[1] = Append(@, FreshLink)]
  /\ last' = Call("CreateLink", 1, "ok")
  /\ UNCHANGED <<integ, simTime, dirtyPoses, discreteForces, mutex, pc,
                 crashed, mbgraphs>>

\* SimbodyPhysics::CreateCollision for the link being loaded, and the
\* loader adding the collision to the link.
Load_CreateCollision(_type) ==
  LET l == NumLinks(models[1])
      made == CreateCollision(_type)
  IN /\ Idle
     /\ nCalls < MaxCalls
     /\ l >= 1
     /\ NumJoints(models[1]) = 0
     /\ nCalls' = nCalls + 1
     /\ \E out \in made.outcomes :
          /\ last' = Call("CreateCollision", 1, out)
          /\ crashed' = (out # "ok")
          /\ models' = IF out = "ok"
                       THEN [models EXCEPT ![1].links[l].collisions =
                                             Append(@, _type)]
                       ELSE models
     /\ UNCHANGED <<sys, integ, simTime, dirtyPoses, discreteForces, mutex,
                    pc, mbgraphs>>

\* SimbodyPhysics::CreateJoint, and the loader adding the joint between the
\* last two links (the world and the link, when there is one link).
Load_CreateJoint(_type) ==
  LET l == NumLinks(models[1])
      made == CreateJoint(_type)
  IN /\ Idle
     /\ nCalls < MaxCalls
     /\ l >= 1
     /\ NumJoints(models[1]) < MaxJoints
     /\ nCalls' = nCalls + 1
     /\ IF made.thrown
        THEN /\ last' = Call("CreateJoint", 1, "exception")
             /\ UNCHANGED <<models, sys>>
        ELSE /\ last' = Call("CreateJoint", 1, "ok")
             /\ models' = [models EXCEPT ![1].joints =
                             Append(@, MkJoint(l - 1, l, made.joint, FALSE))]
             /\ sys' = [sys EXCEPT !.joints[1] = Append(@, FreshJoint)]
     /\ UNCHANGED <<integ, simTime, dirtyPoses, discreteForces, mutex, pc,
                    crashed, mbgraphs>>

EmptyModel == MkModel(FALSE, <<>>, <<>>)

InitLoad == InitOneModel(EmptyModel)

NextLoad ==
  \/ Load_CreateLink
  \/ \E t \in ShapeTypeNames : Load_CreateCollision(t)
  \/ \E t \in JointTypeNames : Load_CreateJoint(t)

SpecLoad == InitLoad /\ [][NextLoad]_vars

\* ------------------------------------------------------------------------
\* A world of two models, which are initialised in any order and again.
\* ------------------------------------------------------------------------

\* a link that collides with the other links of its model
SelfCollideLink == MkLink(FALSE, TRUE, <<"sphere", "box">>)

\* two links joined by one revolute joint, the first with self-collide on
SelfCollideModel ==
  MkModel(FALSE, <<SelfCollideLink, SphereLink>>, <<Hinge(1, 2)>>)

PairModels == {TwoLinkModel, SelfCollideModel, GroundPlaneModel}

InitPair ==
  \E a, b \in PairModels :
     InitWith(<<a, b>>, WithModel(WithModel(EmptySystem, a), b))

NextPair == \E m \in 1..Len(models) : InitModel(m)

SpecPair == InitPair /\ [][NextPair]_vars

\* ------------------------------------------------------------------------
\* Properties
\* ------------------------------------------------------------------------

StepCompleted == last.op = "UpdatePhysics" /\ last.outcome = "ok"

InitCompleted == last.op = "InitModel" /\ last.outcome = "ok"

\* C1: when UpdatePhysics returns normally the integrator's time is at least
\* the world's simulation time: the stepping loop does not stop short.
C1_StepReachesSimTime == StepCompleted => integ.time >= simTime

\* A step that had two ticks of simulation time to cover.
C1_Witness ==
  /\ StepCompleted
  /\ simTime >= last.pre.time + 2
  /\ integ.time >= simTime

\* C2: no call lowers the integrator's time, InitModel after stepping
\* included.
C2_SolverTimeNeverDecreases ==
  last.op \in {"UpdatePhysics", "InitModel"} => integ.time >= last.pre.time

\* C5: after a normal UpdatePhysics the discrete force element holds no
\* applied force, so a force applied before a step is gone when the next
\* step begins.
C5_ForcesClearedAfterStep == StepCompleted => discreteForces = {}

\* A step that started with an applied force.
C5_Witness ==
  /\ StepCompleted
  /\ last.pre.forces # {}
  /\ discreteForces = {}

\* The links of the world, as (model, link) pairs.
WorldLinks ==
  {e \in (1..Len(models)) \X (1..MaxLinks) : e[2] <= NumLinks(models[e[1]])}

\* C6: a normal UpdatePhysics appends to the world's dirty-pose list exactly
\* one entry per link of every model in the world, the entry being the link,
\* and sets that link's dirty pose from its master body; one step of a world
\* of one two-link model leaves exactly 2 entries.
C6_OneDirtyPosePerLink ==
  StepCompleted =>
    LET old == last.pre.dirty
        n == Len(dirtyPoses) - Len(old)
    IN /\ n = Cardinality(WorldLinks)
       /\ SubSeq(dirtyPoses, 1, Len(old)) = old
       /\ {dirtyPoses[Len(old) + i] : i \in 1..n} = WorldLinks
       /\ \A e \in WorldLinks :
            sys.links[e[1]][e[2]].dirtyPose =
              <<sys.links[e[1]][e[2]].masterMobod, integ.time>>
       /\ (models = <<TwoLinkModel>> /\ old = <<>>) => Len(dirtyPoses) = 2

\* One step of a world holding the two-link model only.
C6_Witness ==
  /\ StepCompleted
  /\ models = <<TwoLinkModel>>
  /\ last.pre.dirty = <<>>
  /\ dirtyPoses = <<<<1, 1>>, <<1, 2>>>>

\* The links reachable from the links of set over joints taken in either
\* direction; link 0 is the world.
RECURSIVE JointClosure(_, _)
JointClosure(model, set) ==
  LET next == set \cup
        {b \in 0..NumLinks(model) :
           \E j \in 1..NumJoints(model) :
             \/ model.joints[j].parent \in set /\ model.joints[j].child = b
             \/ model.joints[j].child \in set /\ model.joints[j].parent = b}
  IN IF next = set THEN set ELSE JointClosure(model, next)

\* The number of independent cycles of the joints of a model: joints minus
\* bodies (the world included) plus connected components.
NumLoops(model) ==
  NumJoints(model) - (NumLinks(model) + 1)
    + Cardinality({JointClosure(model, {v}) : v \in 0..NumLinks(model)})

\* The loader's defaults: no link pinned as a base link, no joint marked as
\* the one to break.
DefaultFlags(model) ==
  /\ \A l \in 1..NumLinks(model) : ~model.links[l].mustBeBaseLink
  /\ \A j \in 1..NumJoints(model) : ~model.joints[j].mustBreakLoopHere

\* The mobilized bodies of the matter subsystem.
Mobods == 1..Len(sys.matter.bodies)

\* Every link of model m has a master body of its own in the backend.
OneMasterPerLink(m) ==
  /\ \A l \in 1..NumLinks(models[m]) : sys.links[m][l].masterMobod \in Mobods
  /\ \A l1, l2 \in 1..NumLinks(models[m]) :
       sys.links[m][l1].masterMobod = sys.links[m][l2].masterMobod => l1 = l2

\* C7: building a non-static model of N links whose joints form no cycle
\* yields N master mobilizers, one per link, and no slave body.  Stated for
\* the first build of a model with the loader's default flags.
C7_AcyclicModelHasNoSlaves ==
  (/\ last.op = "InitModel"
   /\ nCalls = 1
   /\ ~models[1].static
   /\ DefaultFlags(models[1])
   /\ NumLoops(models[1]) = 0)
  => /\ last.outcome = "ok"
     /\ OneMasterPerLink(1)
     /\ Len(sys.matter.bodies) = NumLinks(models[1])
     /\ SlavesOf(sys, 1) = <<>>

\* The joints of model m whose mobilizer is a body that is not a slave.
OrdinaryJoints(m) ==
  {j \in 1..NumJoints(models[m]) :
     /\ sys.joints[m][j].mobod \in Mobods
     /\ ~sys.matter.bodies[sys.joints[m][j].mobod].slave}

\* C8: one InitModel of a model with exactly one loop-closing joint creates
\* exactly one slave body and exactly one weld, every other joint getting an
\* ordinary mobilizer; the four-bar model gives 1 slave, 1 weld and 3
\* ordinary joint mobilizers.
C8_OneLoopOneSlaveOneWeld ==
  (/\ InitCompleted
   /\ ~models[last.model].static
   /\ DefaultFlags(models[last.model])
   /\ NumLoops(models[last.model]) = 1)
  => /\ Len(SlavesOf(sys, last.model)) - last.pre.slaves = 1
     /\ Len(sys.matter.welds) - last.pre.welds = 1
     /\ Cardinality(OrdinaryJoints(last.model))
          = NumJoints(models[last.model]) - 1

\* The loop-breaking joints of the last graph built for model m.
LoopBreakingJoints(m) ==
  {k \in 1..Len(mbgraphs[m]) : mbgraphs[m][k].isSlaveMobilizer}

\* The bodies of the matter subsystem made for model m.
BodiesOf(m) == {b \in Mobods : sys.matter.bodies[b].owner[1] = m}

\* C9: after any sequence of InitModel calls, re-initialisation included,
\* every link of a non-static initialised model has exactly one master body,
\* the slaves recorded for the model are as many as its loop-breaking
\* joints, and no body of an earlier initialisation of the model is left.
C9_MastersAndSlavesAcrossInits ==
  (InitCompleted /\ ~models[last.model].static)
  => /\ OneMasterPerLink(last.model)
     /\ Len(SlavesOf(sys, last.model))
          = Cardinality(LoopBreakingJoints(last.model))
     /\ Cardinality(BodiesOf(last.model)) = Len(mbgraphs[last.model])

\* C3: a topology mutation and an in-flight physics step exclude each other:
\* no thread is inserting a model, removing a model or resetting the world
\* while another is in UpdatePhysics between taking and releasing the lock.
C3_MutationExcludesStep == ~(InStep /\ MutatingWorld)

\* A step in flight holds the lock while a mutation of the world waits.
C3_Witness ==
  /\ InStep
  /\ mutex = "physics"
  /\ pc["context"].at = "waiting"

\* C4: while InitModel builds the graph and the system, realizes the
\* topology or re-initialises the integrator, its thread holds the lock that
\* UpdatePhysics takes, so an InitModel never overlaps an UpdatePhysics.
C4_InitModelHoldsLock ==
  /\ InInitModel => mutex = "context"
  /\ ~(InInitModel /\ InStep)

\* The mobilizers of the last graph built for model m.
Mobs(m) == {mbgraphs[m][k] : k \in 1..Len(mbgraphs[m])}

CollisionsOf(m) ==
  {<<m, l, c>> : l \in 1..NumLinks(models[m]), c \in 1..4}
    \cap {o \in {m} \X (1..NumLinks(models[m])) \X (1..4) :
            o[3] <= Len(models[m].links[o[2]].collisions)}

\* The contact surfaces on the ground body.
GroundSurfaces ==
  {sys.matter.groundSurfaces[i] : i \in 1..Len(sys.matter.groundSurfaces)}

\* C12: InitModel of a static model builds no graph and no mobilizer: every
\* link gets the ground body as its master, and every collision shape of
\* every link is attached to the ground body, in no contact clique.
C12_StaticModelOnGround ==
  (last.op = "InitModel" /\ models[1].static)
  => /\ last.outcome = "ok"
     /\ mbgraphs[1] = <<>>
     /\ sys.matter.bodies = <<>>
     /\ \A l \in 1..NumLinks(models[1]) :
          sys.links[1][l].masterMobod = Ground
     /\ \A o \in CollisionsOf(1) : \E g \in GroundSurfaces : g.owner = o
     /\ \A g \in GroundSurfaces : g.clique = InvalidClique

\* The gravity that setting the vector g amounts to: for the zero vector
\* magnitude 0 with the direction left as it was, otherwise the direction
\* g normalised and the magnitude |g|.
GravityFor(g, before) ==
  IF g = <<0, 0, 0>> THEN [direction |-> before.direction, magnitude |-> 0]
  ELSE [direction |-> <<(g[1] * 1000) \div norm(g),
                        (g[2] * 1000) \div norm(g),
                        (g[3] * 1000) \div norm(g)>>,
        magnitude |-> norm(g)]

\* C13: the gravity in effect at a step is the vector last given to
\* SetGravity (or loaded, when SetGravity was never called), whether it was
\* set before or after Init: magnitude 0 for the zero vector, the vector
\* normalised and its norm otherwise.
C13_GravityInEffect ==
  StepCompleted
  => /\ sys.gravity.magnitude = norm(sys.sdfGravity)
     /\ sys.gravity = GravityFor(sys.sdfGravity, sys.gravity)

\* The joint type names CreateJoint is to know.
KnownJointTypes ==
  {"revolute", "universal", "ball", "prismatic", "revolute2", "screw"}

\* C14: CreateJoint makes a joint of the type asked for, for each of
\* revolute, universal, ball, prismatic, revolute2 and screw; for any other
\* type name it throws, no joint is made and nothing of the engine's state
\* changes.
C14_CreateJointKnownOrThrows ==
  [][\A t \in JointTypeNames :
       Load_CreateJoint(t)
       => IF t \in KnownJointTypes
          THEN /\ last'.outcome = "ok"
               /\ NumJoints(models'[1]) = NumJoints(models[1]) + 1
               /\ GetTypeString(
                    models'[1].joints[NumJoints(models'[1])].type) = t
          ELSE /\ last'.outcome = "exception"
               /\ UNCHANGED <<models, sys, integ, simTime, dirtyPoses,
                              discreteForces, mutex, crashed, mbgraphs>>]_vars

C14_Witness ==
  /\ last.op = "CreateJoint"
  /\ last.outcome = "exception"
  /\ NumJoints(models[1]) = 1
  /\ models[1].joints[1].type = "HINGE2_JOINT"

\* The shape type names CreateShape is to know.
KnownShapeTypes ==
  {"plane", "sphere", "box", "cylinder", "mesh", "trimesh", "heightmap",
   "multiray", "ray"}

\* C15: CreateCollision with a shape type name that is not known throws an
\* error the caller can catch: the process goes on, no collision is made
\* and the shape that was not created is not used.
C15_UnknownShapeThrows ==
  [][\A t \in ShapeTypeNames \ KnownShapeTypes :
       Load_CreateCollision(t)
       => /\ last'.outcome = "exception"
          /\ ~crashed'
          /\ UNCHANGED <<models, sys>>]_vars

\* A joint of the model refers to a link that cannot be resolved.
TopologyFailure(model) ==
  \E j \in 1..NumJoints(model) :
     \/ model.joints[j].child \notin 1..NumLinks(model)
     \/ model.joints[j].parent \notin 0..NumLinks(model)

\* C16: InitModel of a non-static model with a joint whose link cannot be
\* resolved ends in an error that the caller gets, and neither realizes the
\* topology nor initialises the integrator.
C16_TopologyFailureSurfaces ==
  (last.op = "InitModel" /\ ~models[last.model].static
     /\ TopologyFailure(models[last.model]))
  => /\ last.outcome = "exception"
     /\ ~crashed
     /\ integ.time = last.pre.time
     /\ (nCalls = 1 => ~integ.initialized)

\* stepTo throws: UpdatePhysics is left from its stepping loop, the
\* integrator being initialised and no InitModel racing with the step.
StepThrows ==
  /\ pc["physics"].at = "stepTo"
  /\ pc'["physics"].at = "idle"
  /\ integ.initialized
  /\ ~InInitModel

\* C17: when the integrator throws in the stepping loop, UpdatePhysics ends
\* there with the exception (no further stepTo, no recovery), the physics
\* lock is free afterwards, and in the step up to and including the throw
\* no pose was published and no applied force was cleared.
C17_StepExceptionPropagates ==
  [][/\ StepThrows
        => /\ last' = Done("UpdatePhysics", 0, "exception")
           /\ ~crashed'
           /\ mutex' = "none"
           /\ integ' = integ
     /\ pc["physics"].at = "stepTo"
        => /\ dirtyPoses' = dirtyPoses
           /\ discreteForces' = discreteForces]_vars

C17_Witness ==
  /\ last = Done("UpdatePhysics", 0, "exception")
  /\ pc["physics"].at = "idle"
  /\ integ.initialized
  /\ integ.time < simTime
  /\ mutex = "none"
  /\ discreteForces # {}
  /\ dirtyPoses = <<>>

NewBodiesOf(l) ==
  {k \in (last.pre.bodies + 1)..Len(sys.matter.bodies) :
     sys.matter.bodies[k].owner = <<1, l>>}

RECURSIVE SumOfMasses(_)
SumOfMasses(ks) ==
  IF ks = {} THEN 0
  ELSE LET k == CHOOSE x \in ks : TRUE
       IN sys.matter.bodies[k].mass + SumOfMasses(ks \ {k})

\* The slave mobilizers of link l in the last graph of model 1.
SlaveMobsOf(l) ==
  {k \in 1..Len(mbgraphs[1]) :
     mbgraphs[1][k].isSlaveMobilizer /\ mbgraphs[1][k].outboardMaster = l}

\* C19: after InitModel, a link with k slaves has k + 1 backend bodies from
\* that build, the master and the slaves, each with the link's mass divided
\* by k + 1; their masses sum to the link's mass.
C19_FragmentMassShares ==
  (InitCompleted /\ GraphIsBuilt(models[1]))
  => \A l \in 1..NumLinks(models[1]) :
       SlaveMobsOf(l) # {}
       => /\ Cardinality(NewBodiesOf(l)) = Cardinality(SlaveMobsOf(l)) + 1
          /\ \A k \in NewBodiesOf(l) :
               sys.matter.bodies[k].mass * (Cardinality(SlaveMobsOf(l)) + 1)
                 = LinkMass
          /\ SumOfMasses(NewBodiesOf(l)) = LinkMass

\* A link with one slave: two bodies of half the link's mass each.
C19_Witness ==
  /\ InitCompleted
  /\ models[1] = TwoJointLoopModel
  /\ Cardinality(NewBodiesOf(2)) = 2
  /\ \A k \in NewBodiesOf(2) : sys.matter.bodies[k].mass * 2 = LinkMass

\* The joint type names the builder is to support, and their degrees of
\* freedom.
SupportedTypeNames ==
  {"free", "revolute", "prismatic", "screw", "universal", "ball"}

DofsOfType(name) ==
  IF name = "free" THEN 6
  ELSE IF name = "universal" THEN 2
  ELSE IF name = "ball" THEN 3
  ELSE 1

\* The degrees of freedom of a backend mobilized body.
DofsOfBody(body) ==
  IF body.kind = "Free" THEN 6
  ELSE IF body.kind = "Ball" THEN 3
  ELSE IF body.kind \in {"Pin", "Slider"} THEN 1
  ELSE 0

\* The body recorded for mobilizer mob of model 1 is valid, has the degrees
\* of freedom of the joint type and is the joint's mobilizer.
BodyBuiltFor(mob) ==
  \E h \in Mobods :
     /\ sys.matter.bodies[h].owner = <<1, mob.outboardMaster>>
     /\ sys.matter.bodies[h].slave = mob.isSlaveMobilizer
     /\ DofsOfBody(sys.matter.bodies[h]) = DofsOfType(mob.jointTypeName)
     /\ IF mob.isSlaveMobilizer
        THEN \E i \in 1..Len(sys.links[1][mob.outboardMaster].slaveMobods) :
               sys.links[1][mob.outboardMaster].slaveMobods[i] = h
        ELSE sys.links[1][mob.outboardMaster].masterMobod = h
     /\ ~mob.isAddedBaseMobilizer => sys.joints[1][mob.jointRef].mobod = h

\* C20: InitModel of a dynamic model whose joints are revolute, prismatic,
\* screw, universal or ball completes, and every mobilizer of its graph
\* (the added free ones included) has a valid backend body with the degrees
\* of freedom of its type, recorded on the link and on the joint.  Stated
\* for the first build.
C20_EverySupportedTypeIsBuilt ==
  (/\ last.op = "InitModel"
   /\ nCalls = 1
   /\ GraphIsBuilt(models[1])
   /\ \A j \in 1..NumJoints(models[1]) :
        GetTypeString(models[1].joints[j].type) \in SupportedTypeNames)
  => /\ last.outcome = "ok"
     /\ \A mob \in Mobs(1) : BodyBuiltFor(mob)

\* The mobilizers of the last graph of model 1 that the builder has no
\* branch for.
UnsupportedMobs == {mob \in Mobs(1) : MobilizedBodyKind(mob) = "None"}

\* C21: a joint of a type the builder does not support does not stop the
\* build: InitModel completes, no backend body is made for that joint, and
\* every other mobilizer of the graph gets its body.  Stated for the first
\* build.
C21_UnsupportedElementIsSkipped ==
  (/\ last.op = "InitModel"
   /\ nCalls = 1
   /\ GraphIsBuilt(models[1])
   /\ UnsupportedMobs # {})
  => /\ last.outcome = "ok"
     /\ Len(sys.matter.bodies)
          = Cardinality(DOMAIN mbgraphs[1]) - Cardinality(UnsupportedMobs)
     /\ \A mob \in Mobs(1) \ UnsupportedMobs : BodyBuiltFor(mob)

\* The contact surfaces on the body of handle h.
SurfacesOn(h) ==
  IF h = Ground THEN GroundSurfaces
  ELSE IF h \in Mobods
  THEN {sys.matter.bodies[h].surfaces[i] :
          i \in 1..Len(sys.matter.bodies[h].surfaces)}
  ELSE {}

\* The shape types that are to get a contact surface.
MappedShapeTypes ==
  {"plane", "sphere", "cylinder", "box", "heightmap", "mesh"}

\* The contact geometries that fit a shape type.
GeometriesFor(shape) ==
  IF shape = "plane" THEN {"HalfSpace"}
  ELSE IF shape = "sphere" THEN {"Sphere"}
  ELSE IF shape \in {"cylinder", "box"} THEN {"Ellipsoid"}
  ELSE {"TriangleMesh", "Heightmap"}

\* C22: after InitModel every collision of type plane, sphere, cylinder,
\* box, heightmap or mesh has a contact surface on the body of its link: a
\* half-space, a sphere, an ellipsoid, an ellipsoid and a geometry of its
\* own for heightmap and mesh.
C22_ShapeToGeometry ==
  (InitCompleted /\ nCalls = 1)
  => \A o \in CollisionsOf(1) :
       LET shape == models[1].links[o[2]].collisions[o[3]]
       IN shape \in MappedShapeTypes
          => \E g \in SurfacesOn(sys.links[1][o[2]].masterMobod) :
               g.owner = o /\ g.geometry \in GeometriesFor(shape)

\* The bodies made for the links of model m.
BodiesOfModel(m) ==
  {h \in Mobods : sys.matter.bodies[h].owner[1] = m}

\* The contact cliques in use on the bodies hs.
CliquesOn(hs) ==
  {g.clique : g \in UNION {SurfacesOn(h) : h \in hs}} \ {InvalidClique}

InboardComesFirst(k) ==
  \E i \in 1..(k - 1) :
     /\ ~mbgraphs[1][i].isSlaveMobilizer
     /\ mbgraphs[1][i].outboardMaster = mbgraphs[1][k].inboard

\* C24: a mobilizer that the builder makes a body for has the ground as
\* its inboard body, or a link whose master mobilizer comes earlier in the
\* graph and whose master body is a valid handle, so that the parent handle
\* given to the body's constructor is an assigned one.  Stated for the
\* first build.
C24_ParentBeforeChild ==
  (last.op = "InitModel" /\ nCalls = 1 /\ GraphIsBuilt(models[1]))
  => \A k \in 1..Len(mbgraphs[1]) :
       (MobilizedBodyKind(mbgraphs[1][k]) # "None"
          /\ mbgraphs[1][k].inboard # 0)
       => /\ InboardComesFirst(k)
          /\ sys.links[1][mbgraphs[1][k].inboard].masterMobod \in Mobods

\* The joints of model 1 whose mobilizer in the last graph is reversed.
ReversedMobs == {mob \in Mobs(1) :
                   ~mob.isAddedBaseMobilizer /\ mob.isReversedFromJoint}

WeldsOf(slave) ==
  {i \in 1..Len(sys.matter.welds) : sys.matter.welds[i][2] = slave}

\* C26: whatever models were initialised, in whatever order, every link has
\* as many welds recorded as it has slave bodies, and every slave body is
\* held by exactly one weld constraint.
C26_OneWeldPerSlave ==
  \A m \in 1..Len(models) :
     \A l \in 1..NumLinks(models[m]) :
        /\ Len(sys.links[m][l].slaveWelds) = Len(sys.links[m][l].slaveMobods)
        /\ \A i \in 1..Len(sys.links[m][l].slaveMobods) :
             Cardinality(WeldsOf(sys.links[m][l].slaveMobods[i])) = 1

Registered == RegisterBodiesAndJoints(models[1])

\* C28: CreateMultibodyGraph registers "world" first and with infinite
\* mass, then the links, then every joint once and in the order of the
\* model's joint list, each under its own reference with its type name, its
\* parent link ("world" when the joint has no parent link), its child link
\* and its mustBreakLoopHere flag; every mobilizer that generateGraph makes
\* for a registered joint carries that joint's type name and connects the
\* two bodies it was registered with.  It is about the models whose joints
\* all have a child link.
C28_JointsRegisteredInOrder ==
  (last.op = "InitModel" /\ GraphIsBuilt(models[1]))
  => /\ Head(Registered.bodies) = 0
     /\ Registered.mass[0] = Infinity
     /\ Registered.bodies
          = <<0>> \o [b \in 1..NumLinks(models[1]) |-> b]
     /\ Len(Registered.joints) = NumJoints(models[1])
     /\ \A j \in 1..NumJoints(models[1]) :
          /\ Registered.joints[j].ref = j
          /\ Registered.joints[j].type
               = GetTypeString(models[1].joints[j].type)
          /\ Registered.joints[j].child = models[1].joints[j].child
          /\ Registered.joints[j].parent = models[1].joints[j].parent
          /\ (models[1].joints[j].parent = 0
                => Registered.joints[j].parent = Ground)
          /\ Registered.joints[j].mustBeLoopJoint
               = models[1].joints[j].mustBreakLoopHere
          /\ ~Registered.joints[j].isAddedBaseJoint
     /\ \A mob \in Mobs(1) :
          ~mob.isAddedBaseMobilizer
          => /\ mob.jointTypeName = Registered.joints[mob.jointRef].type
             /\ {mob.inboard, mob.outboardMaster}
                  = {Registered.joints[mob.jointRef].parent,
                     Registered.joints[mob.jointRef].child}
             /\ (Registered.joints[mob.jointRef].mustBeLoopJoint
                   => mob.isSlaveMobilizer)

\* A graph was built from a model with a joint that has no parent link and
\* a later joint that must break the loop.
C28_Witness ==
  /\ last.op = "InitModel" /\ GraphIsBuilt(models[1])
  /\ last.outcome = "ok"
  /\ NumJoints(models[1]) = 2
  /\ models[1].joints[1].parent = 0
  /\ models[1].joints[2].mustBreakLoopHere
  /\ \E mob \in Mobs(1) : mob.jointRef = 2 /\ mob.isSlaveMobilizer

\* The last call was an UpdatePhysics that got to its pose loop: the
\* integrator had been initialised and the stepping loop ended.
PoseLoopReached ==
  last.op = "UpdatePhysics" /\ integ.initialized /\ integ.time >= simTime

\* The links whose master body is the unassigned handle.
LinksWithoutMaster ==
  {e \in {<<m, l>> : m \in 1..Len(models), l \in 1..MaxLinks} :
     /\ e[2] <= NumLinks(models[e[1]])
     /\ sys.links[e[1]][e[2]].masterMobod = EmptyHandle}

\* C29: whenever UpdatePhysics gets to its pose loop, every link of every
\* model of the world has a master body assigned by an InitModel, so the
\* loop never reads an unassigned master body.
C29_PublishedLinkHasMaster == PoseLoopReached => LinksWithoutMaster = {}

\* The shape types AddCollisionsToLink has a case for.
SupportedShapeTypes == {"plane", "sphere", "cylinder", "box"}

\* The places of the contact surfaces made for collision o: the body, 0 for
\* the ground body, and the position in the body's list of surfaces.
SurfacePlacesOf(o) ==
  {<<Ground, i>> : i \in {k \in 1..Len(sys.matter.groundSurfaces) :
                            sys.matter.groundSurfaces[k].owner = o}}
    \cup UNION {{<<h, i>> : i \in {k \in 1..Len(sys.matter.bodies[h].surfaces) :
                                     sys.matter.bodies[h].surfaces[k].owner = o}} :
                h \in Mobods}

\* C30: after the first InitModel every collision of a supported shape type
\* has exactly one contact surface in the whole system, on the body handed
\* to AddCollisionsToLink for its link (the link's master body), and the
\* ground body carries surfaces of static models only: a plane adds
\* nothing to the ground body besides its own surface.
C30_OneSurfacePerShape ==
  (InitCompleted /\ nCalls = 1)
  => /\ \A o \in CollisionsOf(1) :
          models[1].links[o[2]].collisions[o[3]] \in SupportedShapeTypes
          => /\ Cardinality(SurfacePlacesOf(o)) = 1
             /\ \A p \in SurfacePlacesOf(o) :
                  p[1] = sys.links[1][o[2]].masterMobod
     /\ (~models[1].static => sys.matter.groundSurfaces = <<>>)

============================================================================
